---- MODULE Spec2Model ----
(***************************************************************************)
(* Model of the rhythm game in src/src/main.ts (class Game).               *)
(*                                                                         *)
(* Units.  Time is counted in tenths of a second and vertical position in  *)
(* tenths of a world unit, so that every quantity of the source is an      *)
(* integer: noteCooldown 0.3 s = 3, the 5.0 s warm-up = 50, hitZoneY -4 =  *)
(* -40, hitThreshold 0.5 = 5, spawn height camera.top + 4 = 9 = 90, and    *)
(* noteSpeed 5 units/s moves a note by noteSpeed * delta tenths of a unit  *)
(* when delta is in tenths of a second.                                    *)
(***************************************************************************)
EXTENDS Integers, Sequences, FiniteSets, Bags

---------------------------------------------------------------------------
(* Program constants *)

NUM_LANES == 4
noteCooldown == 3
noteSpeed == 5
beatThreshold == 40
warmUpTime == 50
hitZoneY == -40
hitThreshold == 5
spawnY == 90
startLife == 100
missPenalty == 2
hitReward == 10
highScoreCap == 5
opacityIdle == 4
opacityFlash == 9

---------------------------------------------------------------------------
(* Bounds of the model *)

\* a frame is taken only while the session clock stays within MaxTime
MaxTime == 33
\* the same, for the runs with coarse frame intervals
MaxLongTime == 728
\* start clicks whose resume() promise or audio load is still in flight
MaxPending == 1
\* the same, for the runs with coarse frame intervals and restarts
MaxReplayTime == 84
\* number of start clicks, hence of startGame() calls, in a run
MaxSessions == 2
\* lane-flash restores (setTimeout 150 ms) pending at once
MaxFlash == 1
\* miss-banner hides (setTimeout 500 ms) pending at once
MaxMiss == 2
\* live notes at the end of a frame
MaxNotes == 3

\* frame intervals (clock.getDelta()), in tenths of a second
Deltas == {2, 4, 21}
\* coarse frame intervals (a throttled page): 1.4 s and 2.8 s
LongDeltas == {14, 28}
\* samples of analyser.getAverageFrequency() around beatThreshold
Energies == {40, 41}
\* the samples of a track that stays above beatThreshold
LoudEnergies == {41}

Lanes == 0 .. (NUM_LANES - 1)
\* the lanes Math.random() and the keyboard draw in a run
PlayedLanes == {0, 1}
\* the draws of the runs without key presses, where the lane plays no part
OneLane == {0}
\* event.code of a keydown: a lane key (its index in LANE_KEYS) or another key
NoLane == -1
KeyCodes == PlayedLanes \cup {NoLane}

---------------------------------------------------------------------------
VARIABLES
    score,          \* Game.score
    life,           \* Game.life
    notes,          \* Game.notes: sequence of [lane, y, id], index 1 = notes[0]
    lastBeatTime,   \* Game.lastBeatTime
    isGameOver,     \* Game.isGameOver
    isPlaying,      \* Game.sound.isPlaying
    elapsed,        \* Game.clock.elapsedTime
    startScreen,    \* startScreen.style.display = 'flex'
    resumes,        \* pending audioListener.context.resume() promises
    loads,          \* pending AudioLoader.load() requests
    rafs,           \* pending requestAnimationFrame callbacks
    enterListeners, \* keydown listeners registered by handleGameOver
    highScores,     \* localStorage 'highScores'
    opacity,        \* hitZoneMeshes[lane].material.opacity
    missShown,      \* missElement.style.display = 'block'
    timers,         \* pending setTimeout callbacks, a bag of TimerKinds
    session,        \* history: number of startGame() calls so far
    hits,           \* history: hits since the last startGame()
    exits,          \* history: note exits since the last startGame()
    nextId,         \* history: notes spawned since the last startGame()
    last            \* history: what the last step did

vars == << score, life, notes, lastBeatTime, isGameOver, isPlaying, elapsed,
           startScreen, resumes, loads, rafs, enterListeners, highScores,
           opacity, missShown, timers, session, hits, exits, nextId, last >>

---------------------------------------------------------------------------
(* The Game object as a record, so that a method is an operator on it *)

Game ==
    [ score |-> score, life |-> life, notes |-> notes,
      lastBeatTime |-> lastBeatTime, isGameOver |-> isGameOver,
      isPlaying |-> isPlaying, elapsed |-> elapsed,
      startScreen |-> startScreen, resumes |-> resumes, loads |-> loads,
      rafs |-> rafs, enterListeners |-> enterListeners,
      highScores |-> highScores, opacity |-> opacity,
      missShown |-> missShown, timers |-> timers, session |-> session,
      hits |-> hits, exits |-> exits, nextId |-> nextId ]

\* the step's outcome: every field of the object, and what the step was
Becomes(g, l) ==
    /\ score' = g.score
    /\ life' = g.life
    /\ notes' = g.notes
    /\ lastBeatTime' = g.lastBeatTime
    /\ isGameOver' = g.isGameOver
    /\ isPlaying' = g.isPlaying
    /\ elapsed' = g.elapsed
    /\ startScreen' = g.startScreen
    /\ resumes' = g.resumes
    /\ loads' = g.loads
    /\ rafs' = g.rafs
    /\ enterListeners' = g.enterListeners
    /\ highScores' = g.highScores
    /\ opacity' = g.opacity
    /\ missShown' = g.missShown
    /\ timers' = g.timers
    /\ session' = g.session
    /\ hits' = g.hits
    /\ exits' = g.exits
    /\ nextId' = g.nextId
    /\ last' = l

\* a history entry with its argument: the energy sample a tick read, or the
\* session that scheduled the timer that fired
DidWith(op, lane, rep, res, arg) ==
    [op |-> op, lane |-> lane, rep |-> rep, res |-> res, arg |-> arg]

Did(op, lane, rep, res) == DidWith(op, lane, rep, res, 0)

\* the sample animate() read, if it got as far as reading it
SampleRead(branch, freqData) == IF branch = "tick" THEN freqData ELSE 0

---------------------------------------------------------------------------
(* Array helpers *)

Min(a, b) == IF a < b THEN a ELSE b

\* Array.prototype.splice(i, 1) on a 1-based sequence
Splice(s, i) == SubSeq(s, 1, i - 1) \o SubSeq(s, i + 1, Len(s))

\* one insertion step of a descending sort
RECURSIVE InsertDesc(_, _)
InsertDesc(x, s) ==
    IF s = << >> THEN << x >>
    ELSE IF x >= Head(s) THEN << x >> \o s
    ELSE << Head(s) >> \o InsertDesc(x, Tail(s))

\* Array.prototype.sort((a, b) => b - a)
RECURSIVE SortDesc(_)
SortDesc(s) ==
    IF s = << >> THEN << >> ELSE InsertDesc(Head(s), SortDesc(Tail(s)))

\* setTimeout(callback, delay): one more pending callback of this kind
FlashTimer(lane, sess) == [kind |-> "flash", lane |-> lane, sess |-> sess]
MissTimer(sess) == [kind |-> "miss", lane |-> NoLane, sess |-> sess]
SetTimeout(bag, t) == bag (+) SetToBag({t})
\* number of pending timers of a kind
Pending(bag, kind) ==
    BagCardinality([t \in {u \in BagToSet(bag) : u.kind = kind} |-> bag[t]])

---------------------------------------------------------------------------
(* Methods of Game *)

\* handleGameOver() with the list cut to five entries before it is sorted
HandleGameOverSliceFirst(g) ==
    LET pushed == Append(g.highScores, g.score)
        cut == SubSeq(pushed, 1, Min(highScoreCap, Len(pushed)))
    IN [g EXCEPT !.isGameOver = TRUE,
                 !.isPlaying = FALSE,
                 !.highScores = SortDesc(cut),
                 !.enterListeners = @ + 1]

\* handleGameOver(): flag, stop the sound, record the score, wait for Enter
HandleGameOver(g) ==
    LET pushed == Append(g.highScores, g.score)
        sorted == SortDesc(pushed)
        newHighScores == SubSeq(sorted, 1, Min(highScoreCap, Len(sorted)))
    IN [g EXCEPT !.isGameOver = TRUE,
                 !.isPlaying = FALSE,
                 !.highScores = newHighScores,
                 !.enterListeners = @ + 1]

\* updateUI() with the life check written as life < 0
UpdateUIBelowZero(g) ==
    IF g.life < 0 /\ ~g.isGameOver THEN HandleGameOver(g) ELSE g

\* updateUI(): the score and life display, then the life check
UpdateUI(g) ==
    IF g.life <= 0 /\ ~g.isGameOver THEN HandleGameOver(g) ELSE g

\* showMiss(): show the banner and schedule its hiding
ShowMiss(g) ==
    [g EXCEPT !.missShown = TRUE,
              !.timers = SetTimeout(@, MissTimer(g.session))]

\* the body of the note loop with the exit test written as <=
NoteStepAtBound(g, i, delta) ==
    LET y == g.notes[i].y - noteSpeed * delta
        moved == [g EXCEPT !.notes[i].y = y]
    IN IF y <= hitZoneY - hitThreshold
       THEN UpdateUI(ShowMiss([moved EXCEPT !.notes = Splice(@, i),
                                            !.life = @ - missPenalty,
                                            !.exits = @ + 1]))
       ELSE moved

\* the body of the note loop of animate() for index i: update, then exit test
NoteStep(g, i, delta) ==
    LET y == g.notes[i].y - noteSpeed * delta
        moved == [g EXCEPT !.notes[i].y = y]
    IN IF y < hitZoneY - hitThreshold
       THEN UpdateUI(ShowMiss([moved EXCEPT !.notes = Splice(@, i),
                                            !.life = @ - missPenalty,
                                            !.exits = @ + 1]))
       ELSE moved

\* for (let i = this.notes.length - 1; i >= 0; i--) of animate()
RECURSIVE NoteLoop(_, _, _)
NoteLoop(g, i, delta) ==
    IF i = 0 THEN g ELSE NoteLoop(NoteStep(g, i, delta), i - 1, delta)

\* the spawn decision with the cooldown compared against the clock time
ShouldCreateNoteNoGate(time, lastBeat, freqData) ==
    LET isReadyForNote == time > noteCooldown
    IN IF time < warmUpTime
       THEN isReadyForNote
       ELSE freqData > beatThreshold /\ isReadyForNote

\* the spawn decision of animate() at clock time `time` with sample freqData
ShouldCreateNote(time, lastBeat, freqData) ==
    LET isReadyForNote == (time - lastBeat) > noteCooldown
    IN IF time < warmUpTime
       THEN isReadyForNote
       ELSE freqData > beatThreshold /\ isReadyForNote

\* the spawn block of animate()
CreateNote(g, time, lane) ==
    [g EXCEPT !.lastBeatTime = time,
              !.notes = Append(@, [lane |-> lane, y |-> spawnY,
                                   id |-> g.nextId + 1]),
              !.nextId = @ + 1]

\* the first check of animate() without the track-finished branch
AnimateBranchNeverOver(g) ==
    IF g.isGameOver THEN "stale" ELSE "tick"

\* the first check of animate() without the test for an empty field
AnimateBranchAnyField(g) ==
    IF ~g.isPlaying /\ ~g.isGameOver THEN "over"
    ELSE IF g.isGameOver THEN "stale"
    ELSE "tick"

\* which way animate() goes: "over" (track finished, field empty),
\* "stale" (already game over) or "tick"
AnimateBranch(g) ==
    IF ~g.isPlaying /\ Len(g.notes) = 0 /\ ~g.isGameOver THEN "over"
    ELSE IF g.isGameOver THEN "stale"
    ELSE "tick"

\* animate() with the spawn block moved behind the note loop
AnimateSpawnLast(g, delta, freqData, lane) ==
    IF AnimateBranch(g) = "over" THEN HandleGameOver(g)
    ELSE IF AnimateBranch(g) = "stale" THEN g
    ELSE LET g1 == [g EXCEPT !.rafs = @ + 1, !.elapsed = @ + delta]
             time == g1.elapsed
             g2 == NoteLoop(g1, Len(g1.notes), delta)
         IN IF ShouldCreateNote(time, g2.lastBeatTime, freqData)
            THEN CreateNote(g2, time, lane)
            ELSE g2

\* animate() with frame interval delta, energy sample freqData and the lane
\* Math.random() draws
Animate(g, delta, freqData, lane) ==
    IF AnimateBranch(g) = "over" THEN HandleGameOver(g)
    ELSE IF AnimateBranch(g) = "stale" THEN g
    ELSE LET g1 == [g EXCEPT !.rafs = @ + 1, !.elapsed = @ + delta]
             time == g1.elapsed
             g2 == IF ShouldCreateNote(time, g1.lastBeatTime, freqData)
                   THEN CreateNote(g1, time, lane)
                   ELSE g1
         IN NoteLoop(g2, Len(g2.notes), delta)

\* startGame()
StartGame(g) ==
    UpdateUI([g EXCEPT !.notes = << >>,
                       !.startScreen = FALSE,
                       !.isGameOver = FALSE,
                       !.score = 0,
                       !.life = startLife,
                       !.loads = @ + 1,
                       !.session = @ + 1,
                       !.hits = 0,
                       !.exits = 0,
                       !.nextId = 0])

\* the scan of onKeyPress() with an open acceptance interval
RECURSIVE FindHitOpen(_, _, _)
FindHitOpen(ns, i, lane) ==
    IF i = 0 THEN 0
    ELSE IF /\ ns[i].lane = lane
            /\ ns[i].y > hitZoneY - hitThreshold
            /\ ns[i].y < hitZoneY + hitThreshold
         THEN i
         ELSE FindHitOpen(ns, i - 1, lane)

\* the scan of onKeyPress() run from the oldest note
FindHitOldest(ns, i, lane) ==
    LET found == {j \in 1 .. i : /\ ns[j].lane = lane
                                 /\ ns[j].y >= hitZoneY - hitThreshold
                                 /\ ns[j].y <= hitZoneY + hitThreshold}
    IN IF found = {} THEN 0
       ELSE CHOOSE j \in found : \A k \in found : j <= k

\* startGame() called n times in a row
RECURSIVE StartGames(_, _)
StartGames(g, n) == IF n = 0 THEN g ELSE StartGames(StartGame(g), n - 1)

\* index of the note a press on `lane` hits, scanning from the end; 0 if none
RECURSIVE FindHit(_, _, _)
FindHit(ns, i, lane) ==
    IF i = 0 THEN 0
    ELSE IF /\ ns[i].lane = lane
            /\ ns[i].y >= hitZoneY - hitThreshold
            /\ ns[i].y <= hitZoneY + hitThreshold
         THEN i
         ELSE FindHit(ns, i - 1, lane)

\* the first check of onKeyPress() without event.repeat
KeyIgnoredNoRepeat(g, code, repeat) ==
    g.isGameOver \/ ~g.isPlaying \/ code \notin Lanes

\* whether onKeyPress() returns at its first two checks
KeyIgnored(g, code, repeat) ==
    g.isGameOver \/ repeat \/ ~g.isPlaying \/ code \notin Lanes

\* onKeyPress() charging the miss penalty for a press that matches no note
OnKeyPressPenalty(g, laneIndex) ==
    LET flashed == [g EXCEPT !.opacity[laneIndex] = opacityFlash,
                             !.timers = SetTimeout(@, FlashTimer(laneIndex, g.session))]
        i == FindHit(g.notes, Len(g.notes), laneIndex)
    IN IF i = 0 THEN UpdateUI([flashed EXCEPT !.life = @ - missPenalty])
       ELSE UpdateUI([flashed EXCEPT !.notes = Splice(@, i),
                                     !.score = @ + hitReward,
                                     !.hits = @ + 1])

\* onKeyPress() adding the reward before the scan, matched or not
OnKeyPressRewardFirst(g, laneIndex) ==
    LET flashed == [g EXCEPT !.opacity[laneIndex] = opacityFlash,
                             !.score = @ + hitReward,
                             !.timers = SetTimeout(@, FlashTimer(laneIndex, g.session))]
        i == FindHit(g.notes, Len(g.notes), laneIndex)
    IN IF i = 0 THEN flashed
       ELSE UpdateUI([flashed EXCEPT !.notes = Splice(@, i),
                                     !.hits = @ + 1])

\* onKeyPress(event) past the checks: flash, then the scan
OnKeyPress(g, laneIndex) ==
    LET flashed == [g EXCEPT !.opacity[laneIndex] = opacityFlash,
                             !.timers = SetTimeout(@, FlashTimer(laneIndex, g.session))]
        i == FindHit(g.notes, Len(g.notes), laneIndex)
    IN IF i = 0 THEN flashed
       ELSE UpdateUI([flashed EXCEPT !.notes = Splice(@, i),
                                     !.score = @ + hitReward,
                                     !.hits = @ + 1])

\* the callback of a timer
TimerCallback(g, t) ==
    IF t.kind = "flash"
    THEN [g EXCEPT !.opacity[t.lane] = opacityIdle]
    ELSE [g EXCEPT !.missShown = FALSE]

---------------------------------------------------------------------------
(* Initial state: the object after new Game() *)

Init ==
    /\ score = 0
    /\ life = startLife
    /\ notes = << >>
    /\ lastBeatTime = 0
    /\ isGameOver = FALSE
    /\ isPlaying = FALSE
    /\ elapsed = 0
    /\ startScreen = TRUE
    /\ resumes = 0
    /\ loads = 0
    /\ rafs = 0
    /\ enterListeners = 0
    /\ highScores = << >>
    /\ opacity = [l \in Lanes |-> opacityIdle]
    /\ missShown = FALSE
    /\ timers = EmptyBag
    /\ session = 0
    /\ hits = 0
    /\ exits = 0
    /\ nextId = 0
    /\ last = Did("init", NoLane, FALSE, "")

---------------------------------------------------------------------------
(* Events *)

\* what the analyser reads: a sample while the sound plays, 0 without a source
FreqSamples(g, energies) == IF g.isPlaying THEN energies ELSE {0}

\* a click on the start button, shown on the start screen: resume() is pending
ClickStart ==
    /\ startScreen
    /\ session + resumes < MaxSessions
    /\ resumes + loads < MaxPending
    /\ Becomes([Game EXCEPT !.resumes = @ + 1], Did("click", NoLane, FALSE, ""))

\* The audio context starts running: its pending resume() promises resolve
\* together, in order, and the then-callback of each one calls startGame().
ResumeDone ==
    /\ resumes > 0
    /\ Becomes(StartGames([Game EXCEPT !.resumes = 0], resumes),
               Did("start", NoLane, FALSE, ""))

\* the audio load completes: stop, play, clock.start(), animate()
LoadDone ==
    /\ loads > 0
    /\ \E lane \in PlayedLanes :
         LET g == [Game EXCEPT !.loads = @ - 1, !.isPlaying = TRUE,
                               !.elapsed = 0]
         IN \E freqData \in FreqSamples(g, Energies) :
              Becomes(Animate(g, 0, freqData, lane),
                      DidWith("load", NoLane, FALSE, AnimateBranch(g),
                              SampleRead(AnimateBranch(g), freqData)))

\* the audio load fails: the error is logged
LoadFail ==
    /\ loads > 0
    /\ Becomes([Game EXCEPT !.loads = @ - 1], Did("loadfail", NoLane, FALSE, ""))

\* a scheduled animation frame runs animate()
Frame(deltas, energies, lanes, maxTime) ==
    /\ rafs > 0
    /\ \E delta \in deltas, lane \in lanes :
         LET g == [Game EXCEPT !.rafs = @ - 1]
         IN \E freqData \in FreqSamples(g, energies) :
              LET after == Animate(g, delta, freqData, lane)
              IN /\ after.elapsed <= maxTime
                 /\ Pending(after.timers, "miss") <= MaxMiss
                 /\ Len(after.notes) <= MaxNotes
                 /\ Becomes(after,
                            DidWith("frame", NoLane, FALSE, AnimateBranch(g),
                                    SampleRead(AnimateBranch(g), freqData)))

\* the track reaches its end
AudioEnded ==
    /\ isPlaying
    /\ Becomes([Game EXCEPT !.isPlaying = FALSE], Did("ended", NoLane, FALSE, ""))

\* a keydown event other than Enter (of an ignored auto-repeat the history
\* does not keep the key)
KeyDown ==
    \E code \in KeyCodes, repeat \in BOOLEAN :
       IF KeyIgnored(Game, code, repeat)
       THEN Becomes(Game, Did("key", IF repeat THEN NoLane ELSE code, repeat,
                              "ignored"))
       ELSE LET after == OnKeyPress(Game, code)
            IN /\ Pending(after.timers, "flash") <= MaxFlash
               /\ Becomes(after,
                          Did("key", code, repeat,
                              IF after.hits > hits THEN "hit" ELSE "miss"))

\* Enter while a game-over screen waits for it: every onEnter listener runs
EnterKey ==
    /\ enterListeners > 0
    /\ Becomes([Game EXCEPT !.enterListeners = 0, !.startScreen = TRUE],
               Did("enter", NoLane, FALSE, ""))

\* a pending timer fires
TimerFire ==
    \E t \in BagToSet(timers) :
       Becomes(TimerCallback([Game EXCEPT !.timers = @ (-) SetToBag({t})], t),
               DidWith("timer", t.lane, FALSE, t.kind, t.sess))

Next ==
    \/ ClickStart
    \/ ResumeDone
    \/ LoadDone
    \/ LoadFail
    \/ Frame(Deltas, Energies, PlayedLanes, MaxTime)
    \/ AudioEnded
    \/ KeyDown
    \/ EnterKey
    \/ TimerFire

Spec == Init /\ [][Next]_vars

\* One game played to its end on coarse frame intervals and a loud track,
\* without key presses: the runs in which life runs out.
NextLong ==
    \/ ClickStart
    \/ ResumeDone
    \/ LoadDone
    \/ Frame(LongDeltas, LoudEnergies, OneLane, MaxLongTime)
    \/ AudioEnded
    \/ TimerFire

SpecLong == Init /\ [][NextLong]_vars

\* Games played one after the other on coarse frame intervals: each ends when
\* its track has finished and its last note has left, is acknowledged with
\* Enter, and the next one is started from the lobby.
NextReplay ==
    \/ ClickStart
    \/ ResumeDone
    \/ LoadDone
    \/ LoadFail
    \/ Frame(LongDeltas, LoudEnergies, OneLane, MaxReplayTime)
    \/ AudioEnded
    \/ EnterKey
    \/ TimerFire

SpecReplay == Init /\ [][NextReplay]_vars

---------------------------------------------------------------------------
(* Vocabulary of the claims *)

\* the session state of the specification, read off the object
SessionState ==
    IF startScreen THEN "Lobby" ELSE IF isGameOver THEN "GameOver" ELSE "Playing"

\* the acceptance interval [lineY - tol, lineY + tol]
InWindow(y) == y >= hitZoneY - hitThreshold /\ y <= hitZoneY + hitThreshold

\* the step ran animate(): from a frame callback, or from the load callback
AnimateStep == last'.op \in {"frame", "load"}

\* notes that left the field in the step: those present or spawned, less
\* those that remain
ExitedInStep == Len(notes) + (nextId' - nextId) - Len(notes')

\* the exit on which a life of startLife runs out
LastExit == startLife \div missPenalty

---------------------------------------------------------------------------
(* C1 *)

\* C1: when life reaches 0 in a tick of a Playing session, the session is in
\* GameOver at the end of that tick, whatever notes are still live; counted
\* from life = startLife, that is the tick of exit number
\* startLife / missPenalty, and no tick that runs (the track-finished check
\* at its top aside) ends the session before that exit.
C1_LifeZeroEndsSession ==
    [][ (AnimateStep /\ SessionState = "Playing") =>
          /\ (life > 0 /\ life' <= 0) => SessionState' = "GameOver"
          /\ (exits < LastExit /\ exits' >= LastExit) => SessionState' = "GameOver"
          /\ (last'.res = "tick" /\ exits' < LastExit)
                => SessionState' = "Playing" ]_vars

\* the tick of exit 50: life is 0, the session is over, a note is still live
C1_Witness ==
    /\ last.op = "frame"
    /\ exits = LastExit
    /\ life = 0
    /\ SessionState = "GameOver"
    /\ notes # << >>

---------------------------------------------------------------------------
(* C2 *)

\* C2: in every reachable state life is an integer in [0, 100] (each exit
\* lowers it by the miss penalty, clamped at 0).
C2_LifeInRange == life \in 0 .. startLife

---------------------------------------------------------------------------
(* C3 *)

\* a frame callback of a Playing session that finds the sound not playing
TrackFinishedFrame ==
    last'.op = "frame" /\ SessionState = "Playing" /\ ~isPlaying

\* such a frame with an empty field ends the session and touches nothing else
EmptyFieldEnds ==
    (TrackFinishedFrame /\ notes = << >>) =>
        /\ SessionState' = "GameOver"
        /\ UNCHANGED << notes, life, score, elapsed, lastBeatTime, nextId,
                        exits, missShown, timers >>

\* C3 as stated: track finished and no live note: GameOver in that tick, also
\* with life > 0, and no spawn, advance or penalty; track finished and some
\* note live: the session stays Playing.
C3_AsStated ==
    [][ /\ EmptyFieldEnds
        /\ (TrackFinishedFrame /\ notes # << >>) => SessionState' = "Playing"
      ]_vars

\* C3, amended: ... track finished and some note live: the session stays
\* Playing unless life reaches 0 in that tick.
C3_TrackFinished ==
    [][ /\ EmptyFieldEnds
        /\ (TrackFinishedFrame /\ notes # << >>) =>
              (SessionState' = "Playing" \/ life' <= 0)
      ]_vars

\* the track ended, the last note left, and the next frame ended the session
\* with life to spare
C3_Witness ==
    /\ last.op = "frame"
    /\ last.res = "over"
    /\ SessionState = "GameOver"
    /\ exits > 0
    /\ life > 0

---------------------------------------------------------------------------
(* C4 *)

\* C4: every session start (startGame(), also after an earlier session) leaves
\* score = 0, life = 100, no live note and lastBeatTime reset, so that the last
\* spawn time of the session before does not reach the new session's gate.
C4_StartResets ==
    last.op = "start" =>
        /\ score = 0
        /\ life = startLife
        /\ notes = << >>
        /\ lastBeatTime = 0

---------------------------------------------------------------------------
(* C5 *)

\* the step is a keydown that is no auto-repeat, on the key of a lane
LanePress == last'.op = "key" /\ ~last'.rep /\ last'.lane \in Lanes

\* indexes of the live notes of lane l inside the acceptance interval
Hittable(l) ==
    {i \in 1 .. Len(notes) : notes[i].lane = l /\ InWindow(notes[i].y)}

\* a Hit removes exactly one hittable note and adds the reward; a Miss leaves
\* notes, score and life alone
PressJudged ==
    /\ Hittable(last'.lane) # {} =>
          /\ \E i \in Hittable(last'.lane) : notes' = Splice(notes, i)
          /\ score' = score + hitReward
          /\ life' = life
    /\ Hittable(last'.lane) = {} =>
          UNCHANGED << notes, score, life >>

\* C5 as stated: while the session is Playing, a non-repeat press on lane L
\* with a live note of L in [lineY - tol, lineY + tol] is a Hit (one such note
\* removed, reward added); with none it is a Miss (notes, score, life kept).
C5_AsStated ==
    [][ (LanePress /\ SessionState = "Playing") => PressJudged ]_vars

\* C5, amended: while the session is Playing and its audio is playing, ...
C5_PressJudged ==
    [][ (LanePress /\ SessionState = "Playing" /\ isPlaying) => PressJudged ]_vars

\* a first Hit, which left a note at the upper end of the interval in place
C5_Witness ==
    /\ last.op = "key"
    /\ last.res = "hit"
    /\ score = hitReward
    /\ \E i \in 1 .. Len(notes) : notes[i].y = hitZoneY + hitThreshold

---------------------------------------------------------------------------
(* C6 *)

\* C6: life changes only through note exits, by exactly the miss penalty for
\* each note that leaves the field in a tick; no key event of any kind
\* changes it.  (The reset to 100 is the session start, C4.)
C6_LifeOnlyByExits ==
    [][ /\ last'.op = "key" => life' = life
        /\ AnimateStep => life' = life - missPenalty * ExitedInStep
        /\ last'.op = "start" => life' = startLife
        /\ ~(AnimateStep \/ last'.op = "start") => life' = life ]_vars

\* an unmatched press after a note has left: life still shows the one exit
C6_Witness ==
    /\ last.op = "key"
    /\ last.res = "miss"
    /\ exits = 1
    /\ life = startLife - missPenalty

---------------------------------------------------------------------------
(* C7 *)

\* C7: within a session score changes only on a Hit (a key event that removes
\* a note), by exactly the reward, and never decreases; at all times score is
\* the reward times the number of Hits since the session started.
C7_ScoreCountsHits ==
    /\ [](score = hitReward * hits)
    /\ [][ /\ last'.op = "key" =>
                /\ hits' - hits = Len(notes) - Len(notes')
                /\ score' = score + hitReward * (Len(notes) - Len(notes'))
           /\ last'.op = "start" => (score' = 0 /\ hits' = 0)
           /\ last'.op \notin {"key", "start"} => UNCHANGED << score, hits >>
         ]_vars

\* three hits from score 0
C7_Witness == hits = 3 /\ score = 3 * hitReward

---------------------------------------------------------------------------
(* C8 *)

\* C8: a keydown is ignored (notes, score, life, flash state and timers as
\* before) when the session is not Playing, when no audio is playing, and
\* when the event is an auto-repeat.
C8_IgnoredPress ==
    [][ (last'.op = "key"
           /\ (SessionState # "Playing" \/ ~isPlaying \/ last'.rep)) =>
          UNCHANGED << notes, score, life, opacity, timers, missShown,
                       isGameOver, isPlaying, startScreen >> ]_vars

\* the track has finished, a note of the lane is inside the interval, and the
\* press on that lane was ignored
C8_Witness ==
    /\ last.op = "key"
    /\ last.res = "ignored"
    /\ SessionState = "Playing"
    /\ ~isPlaying
    /\ \E i \in 1 .. Len(notes) :
          notes[i].lane = last.lane /\ InWindow(notes[i].y)

---------------------------------------------------------------------------
(* C9 *)

\* C9: the container is in spawn order at all times, and a Hit removes the
\* most recently spawned of the notes of the pressed lane that are inside the
\* acceptance interval.
C9_NewestWins ==
    /\ [](\A i, j \in 1 .. Len(notes) : i < j => notes[i].id < notes[j].id)
    /\ [][ last'.res = "hit" =>
             \E i \in Hittable(last'.lane) :
                /\ notes' = Splice(notes, i)
                /\ \A j \in Hittable(last'.lane) : notes[j].id <= notes[i].id
         ]_vars

\* a Hit that left an older note of the same lane inside the interval (the
\* id after its own is gone, a later one is live)
C9_Witness ==
    /\ last.res = "hit"
    /\ \E i \in 1 .. Len(notes) :
          /\ notes[i].lane = last.lane
          /\ InWindow(notes[i].y)
          /\ \E j \in 1 .. Len(notes) : notes[j].id > notes[i].id + 1

---------------------------------------------------------------------------
(* C10 *)

\* notes spawned in the step
SpawnedInStep == nextId' - nextId

\* C10: a tick at clock time t spawns only if t - lastBeatTime > cooldown and
\* spawns at most one note; lastBeatTime becomes t exactly when a note is
\* spawned and is otherwise kept, by ticks and by every other step.
C10_SpawnGate ==
    [][ /\ AnimateStep =>
             /\ SpawnedInStep \in {0, 1}
             /\ SpawnedInStep = 1 =>
                   /\ elapsed' - lastBeatTime > noteCooldown
                   /\ lastBeatTime' = elapsed'
             /\ SpawnedInStep = 0 => lastBeatTime' = lastBeatTime
        /\ ~AnimateStep =>
             /\ lastBeatTime' = lastBeatTime
             /\ Len(notes') <= Len(notes)
      ]_vars

\* a tick inside the cooldown of the last spawn, which spawned nothing
C10_Witness ==
    /\ last.op = "frame"
    /\ last.res = "tick"
    /\ lastBeatTime > 0
    /\ elapsed - lastBeatTime \in 1 .. noteCooldown

---------------------------------------------------------------------------
(* C11 *)

\* the step is a tick: animate() got past its first two checks
TickStep == AnimateStep /\ last'.res = "tick"

\* the tick that takes the session clock out of the warm-up window, after a
\* tick inside the window at which a fresh gate's cooldown was over
LeavesWarmUp ==
    /\ last'.op = "frame"
    /\ elapsed > noteCooldown
    /\ elapsed < warmUpTime
    /\ elapsed' >= warmUpTime

\* C11: in every session, a tick inside the warm-up window whose cooldown has
\* elapsed spawns a note whatever the energy sample, so that the session has
\* had a note by the time its clock leaves the window; a tick after the window
\* spawns only if the energy sample is above the threshold as well.
C11_WarmUpSpawns ==
    [][ TickStep =>
          /\ (elapsed' < warmUpTime /\ elapsed' - lastBeatTime > noteCooldown)
                => SpawnedInStep = 1
          /\ LeavesWarmUp => nextId >= 1
          /\ (elapsed' >= warmUpTime /\ SpawnedInStep = 1)
                => last'.arg > beatThreshold
      ]_vars

---------------------------------------------------------------------------
(* C12 *)

\* C12: when the audio load of a start command has failed, the start is
\* aborted: the session is in Lobby with the start screen (and its start
\* button) shown again, and no tick loop runs.
C12_LoadFailBackToLobby ==
    last.op = "loadfail" =>
        /\ SessionState = "Lobby"
        /\ startScreen
        /\ rafs = 0

---------------------------------------------------------------------------
(* Sessions with hits, played on a page that already has stored scores *)

\* the clock bound of these runs
MaxScoreTime == 75
\* a frame interval of 2.5 s, which takes a note from the spawn height to the
\* upper end of the acceptance interval in the tick that spawns it
ScoreDeltas == {25}
\* what localStorage 'highScores' holds when the page is loaded: lists that
\* earlier runs of handleGameOver() saved
StoredLists ==
    { << >>, << 20, 10 >>, << 10, 10, 10, 0, 0 >>, << 30, 20, 20, 10, 0 >> }

\* the object after new Game() on such a page
InitStored ==
    /\ score = 0
    /\ life = startLife
    /\ notes = << >>
    /\ lastBeatTime = 0
    /\ isGameOver = FALSE
    /\ isPlaying = FALSE
    /\ elapsed = 0
    /\ startScreen = TRUE
    /\ resumes = 0
    /\ loads = 0
    /\ rafs = 0
    /\ enterListeners = 0
    /\ highScores \in StoredLists
    /\ opacity = [l \in Lanes |-> opacityIdle]
    /\ missShown = FALSE
    /\ timers = EmptyBag
    /\ session = 0
    /\ hits = 0
    /\ exits = 0
    /\ nextId = 0
    /\ last = Did("init", NoLane, FALSE, "")

NextScores ==
    \/ ClickStart
    \/ ResumeDone
    \/ LoadDone
    \/ Frame(ScoreDeltas, LoudEnergies, OneLane, MaxScoreTime)
    \/ AudioEnded
    \/ KeyDown
    \/ EnterKey
    \/ TimerFire

SpecScores == InitStored /\ [][NextScores]_vars

---------------------------------------------------------------------------
(* C13 *)

IsDescending(s) == \A i, j \in 1 .. Len(s) : i < j => s[i] >= s[j]

\* the entries of a list, with their multiplicities
Entries(s) == [v \in {s[i] : i \in 1 .. Len(s)} |->
                   Cardinality({i \in 1 .. Len(s) : s[i] = v})]

\* new is old with x inserted, in descending order, cut to the largest
\* highScoreCap entries
IsRecorded(old, x, new) ==
    LET all == Entries(old) (+) SetToBag({x})
        dropped == all (-) Entries(new)
    IN /\ IsDescending(new)
       /\ Len(new) = Min(highScoreCap, Len(old) + 1)
       /\ Entries(new) \sqsubseteq all
       /\ \A d \in BagToSet(dropped), k \in 1 .. Len(new) : d <= new[k]

\* the step takes the session to game over
GameOverStep == ~isGameOver /\ isGameOver'

\* C13: after every GameOver the stored list is the list before with the
\* session's final score inserted, in descending order, cut to its 5 largest
\* entries; so the list is always descending with at most 5 entries, a score
\* above all stored ones ends at index 0, and nothing else writes the list.
C13_HighScores ==
    /\ [](IsDescending(highScores) /\ Len(highScores) <= highScoreCap)
    /\ [][ /\ GameOverStep =>
                /\ IsRecorded(highScores, score', highScores')
                /\ score' = score
                /\ (\A i \in 1 .. Len(highScores) : score > highScores[i])
                      => highScores'[1] = score
           /\ ~GameOverStep => highScores' = highScores
         ]_vars

\* a full list took a score above all its entries and dropped its last one
C13_Witness ==
    /\ last.op = "frame"
    /\ last.res = "over"
    /\ Len(highScores) = highScoreCap
    /\ highScores[1] = score
    /\ highScores[2] < score
    /\ highScores[highScoreCap] > 0

---------------------------------------------------------------------------
(* Runs under fair scheduling *)

\* length of the track, which does not loop: while the sound plays, the
\* session clock stays within it
TrackLength == 56
\* the clock bound of these runs, above every clock value they reach
MaxLiveTime == 140

\* a frame callback while the track has not run past its length
LiveFrame ==
    /\ Frame(LongDeltas, LoudEnergies, OneLane, MaxLiveTime)
    /\ isPlaying => elapsed' <= TrackLength

NextLive ==
    \/ ClickStart
    \/ ResumeDone
    \/ LoadDone
    \/ LoadFail
    \/ LiveFrame
    \/ AudioEnded
    \/ EnterKey
    \/ TimerFire

\* The browser runs every requested animation frame and every timer, and the
\* track, which has a finite length, ends.
SpecLive ==
    /\ Init
    /\ [][NextLive]_vars
    /\ WF_vars(LiveFrame)
    /\ WF_vars(AudioEnded)
    /\ WF_vars(TimerFire)

---------------------------------------------------------------------------
(* C14 *)

\* C14: under fair ticking with positive frame intervals, every Playing
\* session whose tick loop runs reaches GameOver: once the track has finished
\* the energy sample is 0, the remaining notes leave the field, and the
\* session ends, unless life ran out before.
C14_ReachesGameOver ==
    (SessionState = "Playing" /\ rafs > 0) ~> (SessionState = "GameOver")

\* a session whose last note was spawned inside the warm-up window ended with
\* the clock past the window, after its notes had left the field
C14_Witness ==
    /\ last.op = "frame"
    /\ last.res = "over"
    /\ SessionState = "GameOver"
    /\ elapsed > warmUpTime
    /\ lastBeatTime < warmUpTime
    /\ exits >= 2

---------------------------------------------------------------------------
(* C15 *)

\* the step runs the callback of a timer that was set before the last
\* startGame()
StaleTimerStep == last'.op = "timer" /\ last'.arg < session

\* C15: a lane-flash restore or miss-banner hide scheduled in one session
\* changes nothing once a later session has started: the flash state and the
\* banner of the new session stay as they are when such a timer fires.
C15_NoStaleTimer ==
    [][ StaleTimerStep => UNCHANGED << opacity, missShown >> ]_vars

---------------------------------------------------------------------------
(* Games played to the end of life, acknowledged and started again *)

\* The runs of SpecLong, with the Enter key: a game in which life runs out
\* leaves the frame callback that animate() requested before its note loop.
NextRestart ==
    \/ ClickStart
    \/ ResumeDone
    \/ LoadDone
    \/ Frame(LongDeltas, LoudEnergies, OneLane, MaxLongTime)
    \/ AudioEnded
    \/ EnterKey
    \/ TimerFire

SpecRestart == Init /\ [][NextRestart]_vars

---------------------------------------------------------------------------
(* Two clicks on the start button *)

\* clicks on the start button before the first resume() has resolved
MaxClicks == 2

\* another click on the start button while the resume() of an earlier click
\* is pending and the start screen is therefore still shown
ClickAgain ==
    /\ startScreen
    /\ resumes >= 1
    /\ resumes < MaxClicks
    /\ session + resumes < MaxSessions
    /\ loads = 0
    /\ Becomes([Game EXCEPT !.resumes = @ + 1], Did("click", NoLane, FALSE, ""))

NextDouble ==
    \/ ClickStart
    \/ ClickAgain
    \/ ResumeDone
    \/ LoadDone
    \/ LoadFail
    \/ Frame(LongDeltas, LoudEnergies, OneLane, MaxReplayTime)
    \/ AudioEnded
    \/ EnterKey
    \/ TimerFire

SpecDouble == Init /\ [][NextDouble]_vars

---------------------------------------------------------------------------
(* C16 *)

\* the step is a load completion the session does not want: the session is
\* not Playing, or its sound already plays
UnwantedLoadStep ==
    last'.op = "load" /\ (SessionState # "Playing" \/ isPlaying)

\* C16: an audio-load completion that arrives when the session is already
\* playing or has left Playing is discarded: the audio and the session clock
\* are not restarted and no tick loop is added, so at most one frame callback
\* is pending at any time.
C16_StaleLoadDiscarded ==
    /\ [](rafs <= 1)
    /\ [][ UnwantedLoadStep => UNCHANGED << isPlaying, elapsed, rafs >> ]_vars

---------------------------------------------------------------------------
(* C17 *)

\* the tick in which life runs out: the session goes from Playing to GameOver
\* at the exit that brings life to 0
LifeRunsOutStep ==
    TickStep /\ SessionState = "Playing" /\ life > 0 /\ life' <= 0

\* C17: once the session has entered GameOver it stays there until Enter:
\* the audio is not playing, and from the transition on nothing spawns,
\* advances or removes a note or changes life or score -- neither the rest
\* of the tick in which life reached 0 (the notes that tick has still to
\* visit lie below the one that left, so it changes nothing exactly if life
\* ends at 0), nor a frame callback that was already requested, nor a press
\* or a timer.
C17_GameOverTerminal ==
    /\ [](SessionState = "GameOver" => ~isPlaying)
    /\ [][ LifeRunsOutStep => (SessionState' = "GameOver" /\ life' = 0) ]_vars
    /\ [][ (SessionState = "GameOver" /\ last'.op # "enter") =>
              /\ SessionState' = "GameOver"
              /\ UNCHANGED << notes, life, score, nextId, exits, hits >>
         ]_vars

---------------------------------------------------------------------------
(* C18 *)

\* the step is a frame callback that runs right after startGame(): one that
\* animate() requested in the session before
LeftoverFrameStep == last.op = "start" /\ last'.op = "frame"

\* C18: a session that reaches GameOver hands its score to the high-score
\* list exactly once, however it ended -- one call of handleGameOver() in the
\* step that ends it, also when several notes leave in that tick, with the
\* session's final score -- and a session start that is followed at once by
\* a frame callback left from the session before records no score.
C18_ScoreRecordedOnce ==
    [][ /\ GameOverStep =>
             /\ enterListeners' = enterListeners + 1
             /\ score' = score
             /\ IsRecorded(highScores, score, highScores')
        /\ ~GameOverStep => highScores' = highScores
        /\ LeftoverFrameStep => highScores' = highScores
      ]_vars

---------------------------------------------------------------------------
(* C19 *)

\* the frame interval of the tick: clock.getDelta(), which is 0 in the call of
\* animate() that follows clock.start()
TickDelta == IF last'.op = "load" THEN 0 ELSE elapsed' - elapsed

\* the notes of a container, by the number of their spawn
Ids(ns) == {ns[i].id : i \in 1 .. Len(ns)}

ExitBound == hitZoneY - hitThreshold

\* C19: after every tick no live note is below lineY - tolerance: a tick
\* removes exactly the notes that its advance takes below that bound and
\* charges the penalty once for each; a note exactly at the bound stays live
\* and a press on its lane hits it; and every note spawned in the session is
\* live, or has left once, or was hit once, never two of these.
C19_ExitBound ==
    /\ [](\A i \in 1 .. Len(notes) : notes[i].y >= ExitBound)
    /\ [](exits + hits + Len(notes) = nextId)
    /\ [][ TickStep =>
              /\ \A i \in 1 .. Len(notes) :
                    notes[i].id \in Ids(notes')
                       <=> notes[i].y - noteSpeed * TickDelta >= ExitBound
              /\ exits' - exits = ExitedInStep
              /\ life' = life - missPenalty * ExitedInStep
         ]_vars
    /\ [][ (last'.op = "key" /\ last'.res # "ignored"
               /\ \E i \in 1 .. Len(notes) :
                     notes[i].lane = last'.lane /\ notes[i].y = ExitBound)
             => (last'.res = "hit" /\ exits' = exits) ]_vars

\* a tick has left a note exactly at the bound, live, in a session in which
\* a note has left the field
C19_Witness ==
    /\ last.op = "frame"
    /\ last.res = "tick"
    /\ exits >= 1
    /\ \E i \in 1 .. Len(notes) : notes[i].y = ExitBound

---------------------------------------------------------------------------
(* C20 *)

\* the note of container ns that was spawned as number id
NoteOf(ns, id) == ns[CHOOSE i \in 1 .. Len(ns) : ns[i].id = id]

\* C20: a tick lowers every note that is live after it exactly once by
\* noteSpeed * delta -- a note spawned in that tick from the spawn height --
\* whatever other notes the same pass removes; no other step moves a note;
\* so a note's position never increases and its lane never changes.
C20_AdvanceOnce ==
    [][ /\ TickStep =>
             \A k \in 1 .. Len(notes') :
                IF notes'[k].id \in Ids(notes)
                THEN /\ notes'[k].y = NoteOf(notes, notes'[k].id).y
                                         - noteSpeed * TickDelta
                     /\ notes'[k].lane = NoteOf(notes, notes'[k].id).lane
                ELSE /\ notes'[k].y = spawnY - noteSpeed * TickDelta
                     /\ notes'[k].id = nextId'
                     /\ SpawnedInStep = 1
        /\ ~TickStep =>
             \A k \in 1 .. Len(notes') :
                /\ notes'[k].id \in Ids(notes)
                /\ notes'[k] = NoteOf(notes, notes'[k].id)
        /\ \A k \in 1 .. Len(notes') :
              notes'[k].id \in Ids(notes) =>
                 /\ notes'[k].y <= NoteOf(notes, notes'[k].id).y
                 /\ notes'[k].lane = NoteOf(notes, notes'[k].id).lane
      ]_vars

\* a tick that spawned a note and lowered it with an older one, in a session
\* in which a note has left the field
C20_Witness ==
    /\ last.op = "frame"
    /\ last.res = "tick"
    /\ lastBeatTime = elapsed
    /\ Len(notes) >= 2
    /\ notes[Len(notes)].id = nextId
    /\ notes[Len(notes)].y < spawnY
    /\ exits >= 1

====
